---- MODULE Spec2Model ----
(***************************************************************************)
(* Model of the validation-error aggregation of gitprovider/validation.go: *)
(* the MultiError aggregate (Error, Is, As), the validationErrorList       *)
(* builder (Required, Invalid, Append, Error) and the per-entity           *)
(* validation operations that drive a builder.                             *)
(*                                                                         *)
(* Strings are sequences of symbols (each symbol a TLA+ string), so that   *)
(* concatenation is \o and a rendering can be taken apart again.  Every    *)
(* error value is a record with a tag t; pointer-typed errors carry the    *)
(* id of their allocation, so that record equality is Go's ==.             *)
(***************************************************************************)
EXTENDS Integers, Sequences, FiniteSets, TLC

\* Bound on the number of entries free-form recording may put in a builder.
MaxErrs == 2
\* Bound on the allocation counter (objects created during one pass).
MaxAlloc == 4
\* Bound on the number of error values in a directly constructed aggregate
\* (the aggregate itself, the errors it holds, and theirs).
MaxSize == 5
\* First id handed out to an object allocated during a pass; the errors that
\* exist before it (sentinels, errors of callers) have smaller ids.
FirstId == 20

VARIABLES name, errs, next, result, calls, op,
          subj, ans

vars == <<name, errs, next, result, calls, op, subj, ans>>

-----------------------------------------------------------------------------
(* Error values *)

\* The nil error (a nil interface value).
Nil == [t |-> "nil"]

\* The sentinel causes; each is one allocation of errors.New.
ErrFieldRequired == [t |-> "errorString", id |-> 1, s |-> <<"ErrFieldRequired">>]
ErrFieldInvalid == [t |-> "errorString", id |-> 2, s |-> <<"ErrFieldInvalid">>]
ErrFieldEnumInvalid == [t |-> "errorString", id |-> 3, s |-> <<"ErrFieldEnumInvalid">>]

\* &customError{data}: a caller-defined error type (doc comment of MultiError).
customError(id, data) == [t |-> "customError", id |-> id, data |-> data]

\* &MultiError{Errors: es}, allocated as object id.
MultiError(id, es) == [t |-> "MultiError", id |-> id, Errors |-> es]

\* The *fmt.wrapError that fmt.Errorf("...%w", err) returns: the formatted
\* message and the wrapped error.
wrapError(id, msg, err) == [t |-> "wrapError", id |-> id, msg |-> msg, err |-> err]

\* errors.Unwrap: only a wrapError has an Unwrap method.
Unwrap(err) == IF err.t = "wrapError" THEN err.err ELSE Nil

-----------------------------------------------------------------------------
(* Values passed as the offending value (interface{}) *)

NilValue == [t |-> "nil"]
StringValue(s) == [t |-> "string", v |-> s]
\* A nil pointer stored in the interface: the interface itself is not nil.
NilPointerValue == [t |-> "pointer"]

\* fmt.Sprintf("%v", value)
SprintV(value) ==
    CASE value.t = "string" -> value.v
      [] value.t = "pointer" -> <<"<nil>">>
      [] OTHER -> <<"<nil>">>

-----------------------------------------------------------------------------
(* Rendering *)

RECURSIVE Join(_, _)
\* strings.Join(elems, sep)
Join(elems, sep) ==
    IF Len(elems) = 0 THEN <<>>
    ELSE IF Len(elems) = 1 THEN elems[1]
    ELSE elems[1] \o sep \o Join(Tail(elems), sep)

RECURSIVE ErrorString(_)
RECURSIVE MultiErrorBullets(_, _)
RECURSIVE MultiErrorBullets_Reversed(_, _)
\* Mutant of MultiErrorBullets: each bullet is put in front of those before it.
MultiErrorBullets_Reversed(es, errStr) ==
    IF Len(es) = 0 THEN errStr
    ELSE MultiErrorBullets_Reversed(Tail(es), <<"\n- ">> \o ErrorString(Head(es)) \o errStr)

\* The loop of MultiError.Error: errStr += "\n- " + err.Error(), in order.
MultiErrorBullets(es, errStr) ==
    IF Len(es) = 0 THEN errStr
    ELSE MultiErrorBullets(Tail(es), errStr \o <<"\n- ">> \o ErrorString(Head(es)))

\* (*MultiError).Error
MultiErrorError(e) == <<"multiple errors occurred: ">> \o MultiErrorBullets(e.Errors, <<>>)

\* err.Error() by dynamic type.
ErrorString(err) ==
    CASE err.t = "errorString" -> err.s
      [] err.t = "wrapError" -> err.msg
      [] err.t = "MultiError" -> MultiErrorError(err)
      [] err.t = "customError" -> <<"custom">> \o err.data
      [] OTHER -> <<"<nil>">>

-----------------------------------------------------------------------------
(* Matching: errors.Is / errors.As and the methods MultiError gives them *)

RECURSIVE ErrorsIs(_, _)
RECURSIVE IsAnyHeld(_, _)
\* Mutant of IsAnyHeld: the loop returns after the first held error.
IsAnyHeld_FirstOnly(es, target) ==
    IF Len(es) = 0 THEN FALSE ELSE ErrorsIs(Head(es), target)

\* The loop of MultiError.Is over e.Errors: true at the first held error
\* that errors.Is matches against target.
IsAnyHeld(es, target) ==
    IF Len(es) = 0 THEN FALSE
    ELSE IF ErrorsIs(Head(es), target) THEN TRUE
    ELSE IsAnyHeld(Tail(es), target)

\* Mutant of MultiErrorIs: no early return for a target that is an aggregate.
MultiErrorIs_ContentsOnly(e, target) == IsAnyHeld(e.Errors, target)

\* (*MultiError).Is
MultiErrorIs(e, target) ==
    IF target.t = "MultiError" THEN TRUE
    ELSE IsAnyHeld(e.Errors, target)

\* errors.Is(err, target): every error type here is a pointer, so comparable.
ErrorsIs(err, target) ==
    IF target = Nil THEN err = Nil
    ELSE IF err = Nil THEN FALSE
    ELSE IF err = target THEN TRUE
    ELSE IF err.t = "MultiError" /\ MultiErrorIs(err, target) THEN TRUE
    ELSE ErrorsIs(Unwrap(err), target)

\* The result of an extraction: whether it succeeded and the value written
\* into the target.
NotFound == [found |-> FALSE, val |-> Nil]
Found(err) == [found |-> TRUE, val |-> err]

\* reflect: the dynamic type of err is assignable to the target's type.
\* The target type "error" is the interface every error implements.
AssignableTo(err, targetType) == targetType = "error" \/ err.t = targetType

RECURSIVE ErrorsAs(_, _)
RECURSIVE AsFirstHeld(_, _)
RECURSIVE AsLastHeld(_, _)
\* Mutant of AsFirstHeld: the loop does not exit when found, the last match
\* is the one written.
AsLastHeld(es, targetType) ==
    IF Len(es) = 0 THEN NotFound
    ELSE IF AsLastHeld(Tail(es), targetType).found THEN AsLastHeld(Tail(es), targetType)
    ELSE ErrorsAs(Head(es), targetType)

\* The loop of MultiError.As over e.Errors: exits at the first held error
\* on which errors.As succeeds.
AsFirstHeld(es, targetType) ==
    IF Len(es) = 0 THEN NotFound
    ELSE IF ErrorsAs(Head(es), targetType).found THEN ErrorsAs(Head(es), targetType)
    ELSE AsFirstHeld(Tail(es), targetType)

\* (*MultiError).As
MultiErrorAs(e, targetType) == AsFirstHeld(e.Errors, targetType)

\* errors.As(err, &target), target of type targetType.
ErrorsAs(err, targetType) ==
    IF err = Nil THEN NotFound
    ELSE IF AssignableTo(err, targetType) THEN Found(err)
    ELSE IF err.t = "MultiError" /\ MultiErrorAs(err, targetType).found
         THEN MultiErrorAs(err, targetType)
    ELSE ErrorsAs(Unwrap(err), targetType)

-----------------------------------------------------------------------------
(* The builder: validationErrorList{name, errs} *)

\* Mutant of elAppend: no early return for a nil cause.
elAppend_NoNilCheck(n, es, id, err, value, fieldPaths) ==
    Append(es, wrapError(id,
        <<"validation error for ">> \o Join(<<n>> \o fieldPaths, <<".">>)
            \o (IF value # NilValue THEN <<" (value: ">> \o SprintV(value) \o <<")">> ELSE <<>>)
            \o <<": ">> \o ErrorString(err),
        err))

\* Mutant of elAppend: the field path does not begin with the builder's name.
elAppend_NoName(n, es, id, err, value, fieldPaths) ==
    IF err = Nil THEN es
    ELSE Append(es, wrapError(id,
            <<"validation error for ">> \o Join(fieldPaths, <<".">>)
                \o (IF value # NilValue THEN <<" (value: ">> \o SprintV(value) \o <<")">> ELSE <<>>)
                \o <<": ">> \o ErrorString(err),
            err))

\* (*validationErrorList).Append: the errs after the call; id is the
\* allocation of the wrapping error.
elAppend(n, es, id, err, value, fieldPaths) ==
    IF err = Nil THEN es
    ELSE LET fieldPath == Join(<<n>> \o fieldPaths, <<".">>)
             valStr == IF value # NilValue
                       THEN <<" (value: ">> \o SprintV(value) \o <<")">>
                       ELSE <<>>
         IN Append(es, wrapError(id,
                <<"validation error for ">> \o fieldPath \o valStr \o <<": ">>
                    \o ErrorString(err),
                err))

\* Mutant of elRequired: the nested field names are not passed on.
elRequired_NoPath(n, es, id, fieldPaths) == elAppend(n, es, id, ErrFieldRequired, NilValue, <<>>)

\* (*validationErrorList).Required
elRequired(n, es, id, fieldPaths) == elAppend(n, es, id, ErrFieldRequired, NilValue, fieldPaths)

\* Mutant of elInvalid: the value is not passed on.
elInvalid_NoValue(n, es, id, value, fieldPaths) ==
    elAppend(n, es, id, ErrFieldInvalid, NilValue, fieldPaths)

\* (*validationErrorList).Invalid
elInvalid(n, es, id, value, fieldPaths) == elAppend(n, es, id, ErrFieldInvalid, value, fieldPaths)

\* The filter loop of Error: the non-nil entries, in order, in a new slice.
filteredErrs(es) == SelectSeq(es, LAMBDA err : err # Nil)

\* Mutant of elError: the first error is returned, the others are dropped.
elError_FirstOnly(es, id) ==
    IF Len(filteredErrs(es)) = 0 THEN Nil ELSE filteredErrs(es)[1]

\* Mutant of elError: a single error is wrapped in an aggregate too.
elError_AlwaysAggregate(es, id) ==
    IF Len(filteredErrs(es)) = 0 THEN Nil ELSE MultiError(id, filteredErrs(es))

\* (*validationErrorList).Error: the error returned; id is the allocation
\* of the MultiError, used only when one is constructed.
elError(es, id) ==
    IF Len(es) = 0 THEN Nil
    ELSE IF Len(filteredErrs(es)) = 0 THEN Nil
    ELSE IF Len(filteredErrs(es)) = 1 THEN filteredErrs(es)[1]
    ELSE MultiError(id, filteredErrs(es))

-----------------------------------------------------------------------------
(* Inputs *)

\* Names a builder is scoped with.
Names == {<<"DeployKey">>, <<"TeamAccess">>}

\* Nested field paths handed to a recording (fieldPaths ...string).
Paths == {<<>>, <<<<"Name">>>>, <<<<"Repository">>, <<"Organization">>>>}

\* Offending values handed to Invalid and Append.
Values == {NilValue, StringValue(<<"unknown">>), NilPointerValue}

\* The error a sub-entity's own builder resolved to: an aggregate of two
\* wrapped failures.
SubEntityError ==
    elError(elInvalid(<<"RepositoryInfo">>,
                      elRequired(<<"RepositoryInfo">>, <<>>, 4, <<<<"Domain">>>>),
                      5, StringValue(<<"unknown">>), <<<<"Name">>>>),
            6)

\* Causes handed to Append.
Causes == {Nil, ErrFieldEnumInvalid, SubEntityError}

\* The result before any Error() call of the pass.
Unset == [t |-> "unset"]

\* No query answered yet, and no aggregate under query.
NoAnswer == [kind |-> "none"]
NoSubject == [t |-> "none"]

-----------------------------------------------------------------------------
(* Actions on a builder *)

MatchIdle == UNCHANGED <<subj, ans>>

\* A recording may allocate one more wrapping error.
CanRecord == Len(errs) < MaxErrs /\ next < FirstId + MaxAlloc

\* Bookkeeping of a recording call: the log of the recordings that had a
\* cause, and the last call made.
Logged(kind, err, value, fieldPaths) ==
    /\ calls' = IF err = Nil THEN calls
                ELSE Append(calls, [err |-> err, value |-> value, fieldPaths |-> fieldPaths])
    /\ op' = [kind |-> kind, nilCause |-> (err = Nil)]
    /\ next' = next + (Len(errs') - Len(errs))

\* newValidationErrorList(name): a new pass starts with a fresh builder.
NewList(n) ==
    /\ name' = n
    /\ errs' = <<>>
    /\ next' = FirstId
    /\ result' = Unset
    /\ calls' = <<>>
    /\ op' = [kind |-> "New", nilCause |-> FALSE]
    /\ MatchIdle

\* el.Required(fieldPaths...)
Required(fieldPaths) ==
    /\ CanRecord
    /\ errs' = elRequired(name, errs, next, fieldPaths)
    /\ Logged("Required", ErrFieldRequired, NilValue, fieldPaths)
    /\ UNCHANGED <<name, result>>
    /\ MatchIdle

\* el.Invalid(value, fieldPaths...)
Invalid(value, fieldPaths) ==
    /\ CanRecord
    /\ errs' = elInvalid(name, errs, next, value, fieldPaths)
    /\ Logged("Invalid", ErrFieldInvalid, value, fieldPaths)
    /\ UNCHANGED <<name, result>>
    /\ MatchIdle

\* el.Append(err, value, fieldPaths...)
AppendErr(err, value, fieldPaths) ==
    /\ CanRecord
    /\ errs' = elAppend(name, errs, next, err, value, fieldPaths)
    /\ Logged("Append", err, value, fieldPaths)
    /\ UNCHANGED <<name, result>>
    /\ MatchIdle

\* Mutant of Error: the recorded errors are handed over and the builder is
\* left empty.
Error_Consumes ==
    /\ next < FirstId + MaxAlloc
    /\ result' = elError(errs, next)
    /\ next' = IF result'.t = "MultiError" THEN next + 1 ELSE next
    /\ op' = [kind |-> "Error", nilCause |-> FALSE]
    /\ errs' = <<>>
    /\ UNCHANGED <<name, calls>>
    /\ MatchIdle

\* el.Error(): the builder is read, the result is what the caller receives.
Error ==
    /\ next < FirstId + MaxAlloc
    /\ result' = elError(errs, next)
    /\ next' = IF result'.t = "MultiError" THEN next + 1 ELSE next
    /\ op' = [kind |-> "Error", nilCause |-> FALSE]
    /\ UNCHANGED <<name, errs, calls>>
    /\ MatchIdle

-----------------------------------------------------------------------------
(* Validation operations: one whole pass over an entity *)

\* An optional embedded repository reference that is not set.
NoRepository == [present |-> FALSE]

\* A repository-reference descriptor: domain, organization (or user) and
\* repository name.
RepositoryRefs ==
    [present : {TRUE},
     Domain : {<<>>, <<"github.com">>},
     Organization : {<<>>, <<"foo-org">>},
     RepositoryName : {<<>>, <<"foo-repo">>}]

\* An optional enum field that is not set.
NoPermission == [t |-> "unset"]
\* The declared permission enumeration.
KnownPermissions == {StringValue(<<"pull">>)}

DeployKeys ==
    [Name : {<<>>, <<"foo-deploykey">>},
     Key : {<<>>, <<"some-data">>},
     Repository : {NoRepository} \cup RepositoryRefs]

TeamAccesses ==
    [Name : {<<>>, <<"foo-team">>},
     Permission : {NoPermission, StringValue(<<"pull">>), StringValue(<<"unknown">>)},
     Repository : {NoRepository} \cup RepositoryRefs]

\* One check of a pass: whether it failed and the recording it makes then.
Check(failed, kind, err, value, fieldPaths) ==
    [failed |-> failed, kind |-> kind, err |-> err, value |-> value,
     fieldPaths |-> fieldPaths]

RequiredCheck(failed, fieldPaths) ==
    Check(failed, "Required", ErrFieldRequired, NilValue, fieldPaths)

\* The required checks of a descriptor, recorded under the embedding field.
RepositoryRefChecks(ref, field) ==
    IF ~ref.present THEN <<>>
    ELSE << RequiredCheck(ref.Domain = <<>>, <<field, <<"Domain">>>>),
            RequiredCheck(ref.Organization = <<>>, <<field, <<"Organization">>>>),
            RequiredCheck(ref.RepositoryName = <<>>, <<field, <<"RepositoryName">>>>) >>

\* DeployKey.ValidateCreate / ValidateDelete: the checks in the order made.
DeployKeyChecks(dk, method) ==
    << RequiredCheck(dk.Name = <<>>, <<<<"Name">>>>) >>
    \o (IF method = "Create" THEN << RequiredCheck(dk.Key = <<>>, <<<<"Key">>>>) >> ELSE <<>>)
    \o RepositoryRefChecks(dk.Repository, <<"Repository">>)

\* TeamAccess.ValidateCreate / ValidateDelete: the checks in the order made.
TeamAccessChecks(ta, method) ==
    << RequiredCheck(ta.Name = <<>>, <<<<"Name">>>>) >>
    \o (IF method = "Create"
        THEN << Check(ta.Permission # NoPermission /\ ta.Permission \notin KnownPermissions,
                      "Append", ErrFieldEnumInvalid, ta.Permission, <<<<"Permission">>>>) >>
        ELSE <<>>)
    \o RepositoryRefChecks(ta.Repository, <<"Repository">>)

\* The recordings a pass makes: one per failed check, none skipped.
Failures(checks) == SelectSeq(checks, LAMBDA c : c.failed)

\* One recording call on the builder, by the method the check uses.
Record(n, es, id, c) ==
    CASE c.kind = "Required" -> elRequired(n, es, id, c.fieldPaths)
      [] c.kind = "Invalid" -> elInvalid(n, es, id, c.value, c.fieldPaths)
      [] OTHER -> elAppend(n, es, id, c.err, c.value, c.fieldPaths)

RECURSIVE RecordAll(_, _, _, _)
\* The recordings of a pass made one after the other on the same builder;
\* each allocates the next id.
RecordAll(n, es, id, cs) ==
    IF Len(cs) = 0 THEN es
    ELSE RecordAll(n, Record(n, es, id, Head(cs)), id + 1, Tail(cs))

\* The log entries of the recordings of a pass.
LogOf(cs) == [i \in 1..Len(cs) |->
                [err |-> cs[i].err, value |-> cs[i].value, fieldPaths |-> cs[i].fieldPaths]]

\* A validation operation: new builder, every check, then Error().  The pass
\* reads nothing of the state it starts in, so it is taken between passes
\* only (from a builder nothing was recorded in).
Validate(kind, n, entity, checks) ==
    /\ errs = <<>> /\ result = Unset
    /\ name' = n
    /\ errs' = RecordAll(n, <<>>, FirstId, Failures(checks))
    /\ result' = elError(errs', FirstId + Len(errs'))
    /\ next' = FirstId + Len(errs') + (IF result'.t = "MultiError" THEN 1 ELSE 0)
    /\ calls' = LogOf(Failures(checks))
    /\ op' = [kind |-> kind, nilCause |-> FALSE, entity |-> entity]
    /\ MatchIdle

DeployKeyValidateCreate(dk) ==
    Validate("DeployKey.ValidateCreate", <<"DeployKey">>, dk, DeployKeyChecks(dk, "Create"))

DeployKeyValidateDelete(dk) ==
    Validate("DeployKey.ValidateDelete", <<"DeployKey">>, dk, DeployKeyChecks(dk, "Delete"))

TeamAccessValidateCreate(ta) ==
    Validate("TeamAccess.ValidateCreate", <<"TeamAccess">>, ta, TeamAccessChecks(ta, "Create"))

TeamAccessValidateDelete(ta) ==
    Validate("TeamAccess.ValidateDelete", <<"TeamAccess">>, ta, TeamAccessChecks(ta, "Delete"))

Init ==
    /\ name \in Names
    /\ errs = <<>>
    /\ next = FirstId
    /\ result = Unset
    /\ calls = <<>>
    /\ op = [kind |-> "New", nilCause |-> FALSE]
    /\ subj = NoSubject
    /\ ans = NoAnswer

Next ==
    \/ \E n \in Names : NewList(n)
    \/ \E fp \in Paths : Required(fp)
    \/ \E v \in Values, fp \in Paths : Invalid(v, fp)
    \/ \E e \in Causes, v \in Values, fp \in Paths : AppendErr(e, v, fp)
    \/ Error
    \/ \E dk \in DeployKeys : DeployKeyValidateCreate(dk)
    \/ \E dk \in DeployKeys : DeployKeyValidateDelete(dk)
    \/ \E ta \in TeamAccesses : TeamAccessValidateCreate(ta)
    \/ \E ta \in TeamAccesses : TeamAccessValidateDelete(ta)

Spec == Init /\ [][Next]_vars

-----------------------------------------------------------------------------
(* Matching on aggregates a caller constructs: &MultiError{Errors: ...} *)

\* A wrapped required-field failure and a wrapped custom error, as a builder
\* records them.
WrappedRequired == elRequired(<<"DeployKey">>, <<>>, 9, <<<<"Name">>>>)[1]
WrappedCustom ==
    elAppend(<<"DeployKey">>, <<>>, 10, customError(7, <<"my-value">>), NilValue, <<>>)[1]

\* Errors a caller puts into an aggregate.  The two custom errors carry the
\* same data and are different objects.
Leaves == {Nil, ErrFieldRequired, customError(7, <<"my-value">>),
           customError(8, <<"my-value">>), WrappedRequired, WrappedCustom}

\* Targets of errors.Is: sentinels, custom errors, a wrapped error, the empty
\* aggregate &MultiError{} and an aggregate with contents of its own.
Targets == {ErrFieldRequired, ErrFieldInvalid, customError(7, <<"my-value">>),
            customError(8, <<"my-value">>), WrappedRequired,
            MultiError(11, <<>>), MultiError(12, <<ErrFieldInvalid>>)}

\* Types of the target of errors.As.
TargetTypes == {"errorString", "wrapError", "MultiError", "customError", "error"}

RECURSIVE Size(_)
RECURSIVE SizeAll(_)
SizeAll(es) == IF Len(es) = 0 THEN 0 ELSE Size(Head(es)) + SizeAll(Tail(es))
\* The number of error values of a tree of errors.
Size(err) ==
    CASE err.t = "MultiError" -> 1 + SizeAll(err.Errors)
      [] err.t = "wrapError" -> 1 + Size(err.err)
      [] OTHER -> 1

BuilderIdle == UNCHANGED <<name, errs, result, calls, op>>

\* e.Errors = append(e.Errors, err)
Hold(err) ==
    /\ Size(subj) + Size(err) <= MaxSize
    /\ subj' = MultiError(subj.id, Append(subj.Errors, err))
    /\ ans' = NoAnswer
    /\ UNCHANGED next
    /\ BuilderIdle

\* &MultiError{Errors: []error{subj}}: an aggregate holding an aggregate.
Nest ==
    /\ Size(subj) + 1 <= MaxSize
    /\ subj' = MultiError(next, <<subj>>)
    /\ next' = next + 1
    /\ ans' = NoAnswer
    /\ BuilderIdle

\* An aggregate holding the aggregate wrapped with a field path, as Append
\* wraps the error of a sub-entity.
NestWrapped ==
    /\ Size(subj) + 2 <= MaxSize
    /\ subj' = MultiError(next + 1,
                          elAppend(<<"DeployKey">>, <<>>, next, subj, NilValue,
                                   <<<<"Repository">>>>))
    /\ next' = next + 2
    /\ ans' = NoAnswer
    /\ BuilderIdle

\* subj.Is(target), as errors.Is calls it.
IsQuery(target) ==
    /\ ans' = [kind |-> "Is", target |-> target, ok |-> MultiErrorIs(subj, target)]
    /\ UNCHANGED <<subj, next>>
    /\ BuilderIdle

\* subj.As(&target), as errors.As calls it.
AsQuery(targetType) ==
    /\ ans' = [kind |-> "As", targetType |-> targetType,
               res |-> MultiErrorAs(subj, targetType)]
    /\ UNCHANGED <<subj, next>>
    /\ BuilderIdle

InitMatch ==
    /\ name = <<"DeployKey">>
    /\ errs = <<>>
    /\ next = FirstId + 1
    /\ result = Unset
    /\ calls = <<>>
    /\ op = [kind |-> "New", nilCause |-> FALSE]
    /\ subj = MultiError(FirstId, <<>>)
    /\ ans = NoAnswer

NextMatch ==
    \/ \E err \in Leaves : Hold(err)
    \/ Nest
    \/ NestWrapped
    \/ \E target \in Targets : IsQuery(target)
    \/ \E targetType \in TargetTypes : AsQuery(targetType)

SpecMatch == InitMatch /\ [][NextMatch]_vars

-----------------------------------------------------------------------------
(* Vocabulary of the properties *)

RecordKinds == {"Required", "Invalid", "Append"}
ValidateKinds == {"DeployKey.ValidateCreate", "DeployKey.ValidateDelete",
                  "TeamAccess.ValidateCreate", "TeamAccess.ValidateDelete"}

\* The last step ended with Error(): result is what the builder, as it is
\* now, resolved to.
Resolved == op.kind = "Error" \/ op.kind \in ValidateKinds

\* The recorded sequence without nil entries.
NonNil(es) == SelectSeq(es, LAMBDA e : e.t # "nil")

RECURSIVE IdsOf(_)
\* The allocations reachable from an error.
IdsOf(err) ==
    CASE err.t = "MultiError" ->
            {err.id} \cup UNION {IdsOf(err.Errors[i]) : i \in 1..Len(err.Errors)}
      [] err.t = "wrapError" -> {err.id} \cup IdsOf(err.err)
      [] err.t = "nil" -> {}
      [] OTHER -> {err.id}

\* The sequence es with a nil entry put in after its first k entries.
WithNilAt(es, k) == SubSeq(es, 1, k) \o <<Nil>> \o SubSeq(es, k + 1, Len(es))

\* The allocations reachable from the builder's entries.
RecordedIds == UNION {IdsOf(errs[i]) : i \in 1..Len(errs)}

\* The query "is this an aggregate": a caller's empty &MultiError{}.
AnyAggregate == MultiError(11, <<>>)

RECURSIVE DottedPath(_)
\* The segments with a '.' between neighbours, built from the last segment.
DottedPath(segs) ==
    IF Len(segs) = 0 THEN <<>>
    ELSE IF Len(segs) = 1 THEN segs[1]
    ELSE DottedPath(SubSeq(segs, 1, Len(segs) - 1)) \o <<".">> \o segs[Len(segs)]

\* The diagnostic line of a logged recording c on a builder scoped with n.
ExpectedLine(n, c) ==
    <<"validation error for ">> \o DottedPath(<<n>> \o c.fieldPaths)
        \o (IF c.value.t = "nil" THEN <<>>
            ELSE <<" (value: ">> \o SprintV(c.value) \o <<")">>)
        \o <<": ">> \o ErrorString(c.err)

RECURSIVE ExpectedBullets(_, _)
\* One bullet per logged recording, first recording first.
ExpectedBullets(n, cs) ==
    IF Len(cs) = 0 THEN <<>>
    ELSE <<"\n- ">> \o ExpectedLine(n, Head(cs)) \o ExpectedBullets(n, Tail(cs))

\* The position of the symbol that ends the field path of a diagnostic line.
PathEnd(msg) ==
    CHOOSE k \in 2..Len(msg) :
        /\ msg[k] \in {" (value: ", ": "}
        /\ \A j \in 2..(k - 1) : msg[j] \notin {" (value: ", ": "}

\* The field path shown by a diagnostic line.
FieldPathOf(msg) == SubSeq(msg, 2, PathEnd(msg) - 1)

\* Whether a diagnostic line shows a value.
ShowsValue(msg) == msg[PathEnd(msg)] = " (value: "

-----------------------------------------------------------------------------
(* Properties of the builder *)

\* C1: after Error(), the result is nil when the nil-filtered recorded
\* sequence is empty, the one recorded error itself when exactly one
\* remains, and otherwise a newly allocated MultiError holding the whole
\* filtered sequence.  The recording methods store no nil entry; a nil entry
\* put among the recorded ones would not change what Error() returns.
C1_ErrorResolves ==
    Resolved =>
        LET f == NonNil(errs) IN
        /\ Len(f) = 0 => result = Nil
        /\ Len(f) = 1 => result = f[1] /\ result.t # "MultiError"
        /\ Len(f) >= 2 =>
              /\ result.t = "MultiError"
              /\ result.Errors = f
              /\ result.id \notin RecordedIds
              /\ result.id = next - 1
        /\ \A k \in 0..Len(errs) :
              elError(WithNilAt(errs, k), IF result.t = "MultiError" THEN result.id ELSE next)
                  = result

C1_Witness ==
    /\ op.kind = "Error"
    /\ Len(errs) = 2
    /\ result.t = "MultiError"

\* C2: every aggregate produced by Error() holds at least two errors, none
\* of them nil.
C2_AggregateAtLeastTwo ==
    result.t = "MultiError" =>
        /\ Len(result.Errors) >= 2
        /\ \A i \in 1..Len(result.Errors) : result.Errors[i] # Nil

C2_Witness ==
    /\ result.t = "MultiError"
    /\ Len(result.Errors) >= 3

\* C3: no recorded failure is suppressed: resolved with one recorded failure
\* the result matches (errors.Is) its cause; resolved with two or more the
\* result matches "is an aggregate" and the cause of every recorded failure.
C3_NothingSuppressed ==
    Resolved =>
        /\ Len(calls) = 1 => ErrorsIs(result, calls[1].err)
        /\ Len(calls) >= 2 =>
              /\ ErrorsIs(result, AnyAggregate)
              /\ \A i \in 1..Len(calls) : ErrorsIs(result, calls[i].err)

C3_Witness ==
    /\ Resolved
    /\ Len(calls) >= 2
    /\ calls[1].err # calls[Len(calls)].err
    /\ ErrorsIs(result, calls[Len(calls)].err)

\* C4: Append with a nil cause, whatever value and field path it is given
\* and wherever in a sequence of recordings, leaves the recorded sequence
\* unchanged, and with it what Error() resolves to.
C4_NilAppendNoOp ==
    [][(op'.kind = "Append" /\ op'.nilCause) =>
          /\ errs' = errs
          /\ name' = name
          /\ elError(errs', next') = elError(errs, next)]_vars

C4_Witness ==
    /\ op.kind = "Append"
    /\ op.nilCause
    /\ Len(errs) >= 1

\* C5: recordings only add at the end, and the errors held by the resolved
\* aggregate and the bullet lines of its rendering are in the order the
\* recordings were made.
C5_OrderPreserved ==
    /\ [][op'.kind \in RecordKinds =>
            /\ Len(errs') >= Len(errs)
            /\ SubSeq(errs', 1, Len(errs)) = errs]_vars
    /\ [](/\ Len(errs) = Len(calls)
          /\ \A i \in 1..Len(errs) : Unwrap(errs[i]) = calls[i].err
          /\ (Resolved /\ result.t = "MultiError") =>
                /\ Len(result.Errors) = Len(calls)
                /\ \A i \in 1..Len(calls) : Unwrap(result.Errors[i]) = calls[i].err
                /\ ErrorString(result) =
                      <<"multiple errors occurred: ">> \o ExpectedBullets(name, calls))

C5_Witness ==
    /\ Resolved
    /\ result.t = "MultiError"
    /\ Len(calls) >= 2
    /\ calls[1] # calls[2]
    /\ ErrorString(result) # <<"multiple errors occurred: ">>
                              \o ExpectedBullets(name, <<calls[2], calls[1]>>)

\* C8: a recording with a cause appends exactly one wrapped error: its field
\* path is the builder's name and the given segments joined by '.', its
\* wrapped error is the cause, and it shows a value exactly when the value
\* given is not nil; Required records ErrFieldRequired and shows no value,
\* Invalid records ErrFieldInvalid.
C8_RecordingWraps ==
    [][(op'.kind \in RecordKinds /\ ~op'.nilCause) =>
          LET e == errs'[Len(errs')]
              c == calls'[Len(calls')]
          IN /\ Len(errs') = Len(errs) + 1
             /\ SubSeq(errs', 1, Len(errs)) = errs
             /\ e.t = "wrapError"
             /\ FieldPathOf(e.msg) = DottedPath(<<name>> \o c.fieldPaths)
             /\ Unwrap(e) = c.err
             /\ ShowsValue(e.msg) <=> c.value # NilValue
             /\ op'.kind = "Required" => (Unwrap(e) = ErrFieldRequired /\ ~ShowsValue(e.msg))
             /\ op'.kind = "Invalid" => Unwrap(e) = ErrFieldInvalid]_vars

C8_Witness ==
    /\ op.kind = "Invalid"
    /\ Len(errs) = 2
    /\ ShowsValue(errs[2].msg)
    /\ FieldPathOf(errs[2].msg) = <<"DeployKey", ".", "Repository", ".", "Organization">>

-----------------------------------------------------------------------------
(* Properties of matching on an aggregate *)

RECURSIVE Preorder(_)
\* The errors reachable from the held sequence es, depth first in holding
\* order: each error, then what it holds or wraps, then its successor.
Preorder(es) ==
    IF Len(es) = 0 THEN <<>>
    ELSE LET e == Head(es)
             below == CASE e.t = "MultiError" -> <<e>> \o Preorder(e.Errors)
                        [] e.t = "wrapError" -> <<e>> \o Preorder(<<e.err>>)
                        [] e.t = "nil" -> <<>>
                        [] OTHER -> <<e>>
         IN below \o Preorder(Tail(es))

\* The errors of Preorder whose type is assignable to targetType.
Assignable(es, targetType) ==
    SelectSeq(Preorder(es), LAMBDA e : targetType = "error" \/ e.t = targetType)

\* C6: Is on an aggregate is true for every target that is an aggregate,
\* whatever either holds; for any other target it is true exactly when the
\* target is matched by a held error, directly or through nested aggregates
\* and wrapped errors.
C6_IsMatching ==
    ans.kind = "Is" =>
        /\ ans.target.t = "MultiError" => ans.ok
        /\ ans.target.t # "MultiError" =>
              /\ ans.ok <=> \E i \in 1..Len(subj.Errors) : ErrorsIs(subj.Errors[i], ans.target)
              /\ ans.ok <=> \E k \in 1..Len(Preorder(subj.Errors)) :
                                Preorder(subj.Errors)[k] = ans.target

C6_Witness ==
    /\ ans.kind = "Is"
    /\ ans.target.t # "MultiError"
    /\ ans.ok
    /\ \A i \in 1..Len(subj.Errors) : subj.Errors[i] # ans.target

\* The aggregate target matches an aggregate that holds nothing.
C6_WitnessEmpty ==
    /\ ans.kind = "Is"
    /\ ans.target.t = "MultiError"
    /\ ans.ok
    /\ Len(subj.Errors) = 0

\* C7: As on an aggregate succeeds exactly when an error assignable to the
\* target type is held, directly or nested; the value written is the first
\* such error in depth-first holding order; nothing is written otherwise.
C7_AsFirstMatch ==
    ans.kind = "As" =>
        LET hits == Assignable(subj.Errors, ans.targetType) IN
        /\ ans.res.found <=> Len(hits) > 0
        /\ ans.res.found => ans.res.val = hits[1]
        /\ ~ans.res.found => ans.res.val = Nil

C7_Witness ==
    /\ ans.kind = "As"
    /\ ans.res.found
    /\ Len(Assignable(subj.Errors, ans.targetType)) >= 2
    /\ Assignable(subj.Errors, ans.targetType)[1] # Assignable(subj.Errors, ans.targetType)[2]
    /\ \A i \in 1..Len(subj.Errors) : subj.Errors[i] # ans.res.val

-----------------------------------------------------------------------------
(* Properties of the validation operations *)

B2N(b) == IF b THEN 1 ELSE 0

\* The number of empty segments of an embedded reference; none when absent.
EmptySegments(ref) ==
    IF ~ref.present THEN 0
    ELSE B2N(ref.Domain = <<>>) + B2N(ref.Organization = <<>>)
            + B2N(ref.RepositoryName = <<>>)

\* The number of problems in the entity's own fields for the operation.
OwnProblems(kind, e) ==
    CASE kind = "DeployKey.ValidateCreate" -> B2N(e.Name = <<>>) + B2N(e.Key = <<>>)
      [] kind = "TeamAccess.ValidateCreate" ->
            B2N(e.Name = <<>>) + B2N(e.Permission = StringValue(<<"unknown">>))
      [] OTHER -> B2N(e.Name = <<>>)

\* C9: a validation operation records every failed check and returns a
\* non-nil error exactly when one failed; DeployKey.ValidateCreate returns
\* nil for a key with name and key material (and no invalid reference), and
\* for one with neither an aggregate of exactly two ErrFieldRequired
\* failures, for DeployKey.Name and DeployKey.Key.
C9_ValidateAllChecks ==
    op.kind \in ValidateKinds =>
        LET e == op.entity
            problems == OwnProblems(op.kind, e) + EmptySegments(e.Repository)
        IN /\ result # Nil <=> problems > 0
           /\ Len(NonNil(errs)) = problems
           /\ (op.kind = "DeployKey.ValidateCreate" /\ EmptySegments(e.Repository) = 0) =>
                 /\ (e.Name # <<>> /\ e.Key # <<>>) => result = Nil
                 /\ (e.Name = <<>> /\ e.Key = <<>>) =>
                       /\ result.t = "MultiError"
                       /\ Len(result.Errors) = 2
                       /\ \A i \in 1..2 : Unwrap(result.Errors[i]) = ErrFieldRequired
                       /\ FieldPathOf(result.Errors[1].msg) = <<"DeployKey", ".", "Name">>
                       /\ FieldPathOf(result.Errors[2].msg) = <<"DeployKey", ".", "Key">>

C9_Witness ==
    /\ op.kind = "DeployKey.ValidateCreate"
    /\ op.entity.Name = <<>>
    /\ op.entity.Key = <<>>
    /\ ~op.entity.Repository.present
    /\ result.t = "MultiError"

\* C10: the failures of an embedded reference are recorded in the same
\* builder under the embedding field and stay matchable by kind: one empty
\* segment in an otherwise valid entity resolves to a single, not aggregate
\* shaped error matching ErrFieldRequired; two own problems and one empty
\* segment resolve to an aggregate of three entries, each matching its own
\* kind; an absent reference records nothing.
C10_EmbeddedReference ==
    op.kind \in ValidateKinds =>
        LET e == op.entity
            own == OwnProblems(op.kind, e)
            emb == EmptySegments(e.Repository)
        IN /\ Len(errs) = own + emb
           /\ \A i \in (own + 1)..Len(errs) :
                 /\ Len(FieldPathOf(errs[i].msg)) = 5
                 /\ SubSeq(FieldPathOf(errs[i].msg), 1, 4) = name \o <<".", "Repository", ".">>
                 /\ ErrorsIs(errs[i], ErrFieldRequired)
                 /\ ErrorsIs(result, ErrFieldRequired)
           /\ \A i \in 1..own : /\ Len(FieldPathOf(errs[i].msg)) = 3
                                  /\ FieldPathOf(errs[i].msg)[3] # "Repository"
           /\ (own = 0 /\ emb = 1) =>
                 /\ result = errs[1]
                 /\ result.t # "MultiError"
                 /\ ErrorsIs(result, ErrFieldRequired)
                 /\ ~ErrorsIs(result, AnyAggregate)
           /\ (own = 2 /\ emb = 1) =>
                 /\ result.t = "MultiError"
                 /\ Len(result.Errors) = 3
                 /\ \A i \in 1..3 : /\ ErrorsIs(result.Errors[i], calls[i].err)
                                    /\ ErrorsIs(result, calls[i].err)
                 /\ ErrorsIs(result.Errors[3], ErrFieldRequired)
                 /\ op.kind = "TeamAccess.ValidateCreate" =>
                       /\ ErrorsIs(result.Errors[1], ErrFieldRequired)
                       /\ ErrorsIs(result.Errors[2], ErrFieldEnumInvalid)
                       /\ ~ErrorsIs(result.Errors[2], ErrFieldRequired)

C10_Witness ==
    /\ op.kind = "TeamAccess.ValidateCreate"
    /\ OwnProblems(op.kind, op.entity) = 2
    /\ EmptySegments(op.entity.Repository) = 1
    /\ op.entity.Repository.Organization = <<>>
    /\ result.t = "MultiError"
    /\ Len(result.Errors) = 3

\* Scenario D: a team-access binding with a name and a reference lacking
\* its organization, for Delete, resolves to the one wrapped failure.
C10_WitnessSingle ==
    /\ op.kind = "TeamAccess.ValidateDelete"
    /\ OwnProblems(op.kind, op.entity) = 0
    /\ EmptySegments(op.entity.Repository) = 1
    /\ result.t = "wrapError"
    /\ FieldPathOf(result.msg) = <<"TeamAccess", ".", "Repository", ".", "Organization">>

-----------------------------------------------------------------------------
(* Error() reads the builder *)

\* The errors a result of Error() carries: those of an aggregate, the one
\* error returned alone, none for nil.
HeldOf(r) ==
    CASE r.t = "MultiError" -> r.Errors
      [] r.t = "wrapError" -> <<r>>
      [] OTHER -> <<>>

\* C11: Error() leaves the builder's name and recorded sequence as they are;
\* called again with no recording in between it returns a result of the same
\* shape holding the same errors in the same order; called after further
\* recordings it returns all that is recorded by then; and a recording does
\* not change a result returned earlier.
C11_ErrorReadsOnly ==
    [][/\ op'.kind = "Error" =>
            /\ name' = name
            /\ errs' = errs
            /\ HeldOf(result') = NonNil(errs)
            /\ op.kind = "Error" =>
                  /\ result'.t = result.t
                  /\ HeldOf(result') = HeldOf(result)
       /\ op'.kind \in RecordKinds => result' = result]_vars

\* Two recordings, then Error() twice in a row: both calls allocated an
\* aggregate, the second holds what the builder still holds.
C11_Witness ==
    /\ op.kind = "Error"
    /\ Len(errs) = 2
    /\ errs[2].id = FirstId + 1
    /\ result.t = "MultiError"
    /\ result.id = FirstId + 3
    /\ result.Errors = errs

\* A recording made after an Error() call that returned the one error alone:
\* the earlier result is still that error, the builder holds two.
C11_WitnessRecordedAfter ==
    /\ op.kind \in RecordKinds
    /\ Len(errs) = 2
    /\ result = errs[1]

====
